---- MODULE Spec2Model ----
(***************************************************************************)
(* Model of src/main.py: the arXiv harvest / enrich / merge / render       *)
(* pipeline (get_daily_papers, update_json_file, update_paper_links,       *)
(* json_to_md, demo) and the Translater retry loop.                        *)
(*                                                                         *)
(* Python strings are modelled as sequences of one-character strings, so   *)
(* that find, split, strip, replace and the two regular expressions of the *)
(* source act on characters as they do in the program.  Python dicts are   *)
(* modelled as insertion-ordered sequences of [k, v] entries.              *)
(***************************************************************************)
EXTENDS Integers, Sequences, FiniteSets, TLC

VARIABLES
    json_readme,     \* parsed content of the store file config["json_readme_path"]
    json_gitpage,    \* parsed content of the store file config["json_gitpage_path"]
    md_readme,       \* what json_to_md last wrote to config["md_readme_path"]
    md_gitpage,      \* what json_to_md last wrote to config["md_gitpage_path"]
    translater,      \* the translation service behind demo's translater, or NoTranslater
    last_run,        \* how the last call of demo went: its mode, or "aborted"
    data_collector,  \* demo's data_collector when the last run published (empty otherwise)
    harvested,       \* per topic, what the search and the registry answered in the last run
    merged_ids,      \* the <<topic, source identifier>> pairs whose record was merged so far
    translate_log,   \* the Translater.translate calls of the last run, in order
    malformed,       \* the store files whose content json.loads cannot parse
    queried,         \* the registry requests of the last repair run, with their answers
    call,            \* the function last called on its own, with its argument
    ret              \* what that call returned

vars == <<json_readme, json_gitpage, md_readme, md_gitpage, translater, last_run,
          data_collector, harvested, merged_ids, translate_log, malformed, queried,
          call, ret>>

-----------------------------------------------------------------------------
(* Bounds of the model *)

\* longest result list the upstream search returns for one topic
MaxResults == 2

\* longest line handed to pretty_math on its own
MaxText == 5

\* longest source identifier, its version marker left out
MaxStem == 3

-----------------------------------------------------------------------------
(* Python string primitives on sequences of characters *)

NL == "\n"

\* characters in code-point order, for Python's string comparison
CharOrder == <<"\n", " ", "$", "(", ")", "*", ",", "-", ".", "/", "0", "1",
               "2", "3", "4", "5", "6", "7", "8", "9", ":", "A", "B", "C",
               "D", "E", "F", "G", "H", "I", "J", "K", "L", "M", "N", "O",
               "P", "Q", "R", "S", "T", "U", "V", "W", "X", "Y", "Z", "[",
               "]", "a", "b", "c", "d", "e", "f", "g", "h", "i", "j", "k",
               "l", "m", "n", "o", "p", "q", "r", "s", "t", "u", "v", "w",
               "x", "y", "z", "|">>

Ord(c) == CHOOSE i \in 1..Len(CharOrder) : CharOrder[i] = c

Digits == {"0", "1", "2", "3", "4", "5", "6", "7", "8", "9"}

Whitespace == {" ", NL}

\* s[a:b] with 0-based Python bounds 0 <= a, b
Slice(s, a, b) == SubSeq(s, a + 1, IF b > Len(s) THEN Len(s) ELSE b)

\* s.startswith(p, i) with a 0-based offset i
StartsWithAt(s, p, i) ==
    /\ i + Len(p) <= Len(s)
    /\ \A j \in 1..Len(p) : s[i + j] = p[j]

\* s.find(c) for a single character c: 0-based index, -1 when absent
Find(s, c) ==
    IF \E i \in 1..Len(s) : s[i] = c
    THEN (CHOOSE i \in 1..Len(s) : s[i] = c /\ \A j \in 1..(i - 1) : s[j] # c) - 1
    ELSE -1

\* sub in s
Contains(s, sub) == \E i \in 0..Len(s) : StartsWithAt(s, sub, i)

RECURSIVE Replace(_, _, _)
\* s.replace(old, new), old not empty: every occurrence, left to right
Replace(s, old, new) ==
    IF s = <<>> THEN <<>>
    ELSE IF StartsWithAt(s, old, 0)
         THEN new \o Replace(SubSeq(s, Len(old) + 1, Len(s)), old, new)
         ELSE <<Head(s)>> \o Replace(Tail(s), old, new)

RECURSIVE SplitAt(_, _, _)
\* s.split(sep) for a single character sep, p the value of s.find(sep)
SplitAt(s, sep, p) ==
    IF p = -1 THEN <<s>>
    ELSE <<Slice(s, 0, p)>>
         \o SplitAt(SubSeq(s, p + 2, Len(s)), sep, Find(SubSeq(s, p + 2, Len(s)), sep))

\* s.split(sep) for a single character sep
Split(s, sep) == SplitAt(s, sep, Find(s, sep))

RECURSIVE LStrip(_)
LStrip(s) == IF s # <<>> /\ Head(s) \in Whitespace THEN LStrip(Tail(s)) ELSE s

RECURSIVE RStrip(_)
RStrip(s) ==
    IF s # <<>> /\ s[Len(s)] \in Whitespace THEN RStrip(SubSeq(s, 1, Len(s) - 1)) ELSE s

\* s.strip()
Strip(s) == LStrip(RStrip(s))

RECURSIVE SkipDigits(_)
SkipDigits(s) == IF s # <<>> /\ Head(s) \in Digits THEN SkipDigits(Tail(s)) ELSE s

RECURSIVE SubVersion(_)
\* re.sub(r"v\d+", "", s)
SubVersion(s) ==
    IF s = <<>> THEN <<>>
    ELSE IF Head(s) = "v" /\ Len(s) >= 2 /\ s[2] \in Digits
         THEN SubVersion(SkipDigits(Tail(s)))
         ELSE <<Head(s)>> \o SubVersion(Tail(s))

RECURSIVE Join(_, _)
\* sep.join(parts)
Join(parts, sep) ==
    IF parts = <<>> THEN <<>>
    ELSE IF Len(parts) = 1 THEN parts[1]
    ELSE parts[1] \o sep \o Join(Tail(parts), sep)

\* a < b for Python strings
StrLess(a, b) ==
    \E i \in 1..(Len(a) + 1) :
        /\ \A j \in 1..(i - 1) : j <= Len(b) /\ a[j] = b[j]
        /\ \/ i = Len(a) + 1 /\ Len(b) >= i
           \/ i <= Len(a) /\ i <= Len(b) /\ Ord(a[i]) < Ord(b[i])

DigitChar(n) == <<"0", "1", "2", "3", "4", "5", "6", "7", "8", "9">>[n + 1]

RECURSIVE ZeroPad(_, _)
\* the decimal digits of n, zero-padded to width w
ZeroPad(n, w) == IF w = 0 THEN <<>> ELSE ZeroPad(n \div 10, w - 1) \o <<DigitChar(n % 10)>>

\* str(d) for a datetime.date d
DateStr(d) == ZeroPad(d.year, 4) \o <<"-">> \o ZeroPad(d.month, 2) \o <<"-">> \o ZeroPad(d.day, 2)

-----------------------------------------------------------------------------
(* Python dicts as insertion-ordered sequences of entries [k |-> key, v |-> value] *)

EmptyDict == <<>>

Keys(d) == { d[i].k : i \in 1..Len(d) }

KeyList(d) == [i \in 1..Len(d) |-> d[i].k]

HasKey(d, k) == \E i \in 1..Len(d) : d[i].k = k

\* d[k], for a key of d
Get(d, k) == d[CHOOSE i \in 1..Len(d) : d[i].k = k].v

\* d[k] = v: an existing key keeps its place, a new key goes last
DictSet(d, k, v) ==
    IF HasKey(d, k)
    THEN [i \in 1..Len(d) |-> IF d[i].k = k THEN [k |-> k, v |-> v] ELSE d[i]]
    ELSE Append(d, [k |-> k, v |-> v])

RECURSIVE DictUpdate(_, _)
\* d.update(e)
DictUpdate(d, e) ==
    IF e = <<>> THEN d ELSE DictUpdate(DictSet(d, Head(e).k, Head(e).v), Tail(e))

-----------------------------------------------------------------------------
(* Translater.translate *)

NUM_RETRIES == 3

\* retry_seconds at the start of Translater.translate
TranslateBackoff == 1

\* one answer of the translation service: a text, or an exception
Answer(text) == [ok |-> TRUE, text |-> text]
Failure == [ok |-> FALSE, text |-> <<>>]

RECURSIVE translate_loop(_, _, _, _, _, _)
\* the while loop of translate; service[i] answers the i-th generate_content call
translate_loop(text, service, retry_count, retry_seconds, calls, slept) ==
    IF retry_count < NUM_RETRIES
    THEN IF service[calls + 1].ok
         THEN [result |-> service[calls + 1].text, calls |-> calls + 1, slept |-> slept]
         ELSE translate_loop(text, service, retry_count + 1, retry_seconds * 2,
                             calls + 1, slept + retry_seconds)
    ELSE [result |-> text, calls |-> calls, slept |-> slept]

\* mutant of translate: the first sleep is twice retry_seconds
translate_slow(text, service) == translate_loop(text, service, 0, TranslateBackoff * 2, 0, 0)

\* mutant of translate: retry_count starts at 1, one attempt is lost
translate_from_one(text, service) == translate_loop(text, service, 1, TranslateBackoff, 0, 0)

translate(text, service) == translate_loop(text, service, 0, TranslateBackoff, 0, 0)

-----------------------------------------------------------------------------
(* get_daily_papers *)

base_url == <<"h", "t", "t", "p", "s", ":", "/", "/", "a", "r", "x", "i", "v", ".",
              "p", "a", "p", "e", "r", "s", "w", "i", "t", "h", "c", "o", "d", "e",
              ".", "c", "o", "m", "/", "a", "p", "i", "/", "v", "0", "/", "p", "a",
              "p", "e", "r", "s", "/">>

arxiv_url == <<"h", "t", "t", "p", ":", "/", "/", "a", "r", "x", "i", "v", ".", "o",
               "r", "g", "/">>

\* translater=None: no service
NoTranslater == <<>>

\* answers of the code-link registry to one request
RegError == [kind |-> "error", url |-> <<>>]
RegNone == [kind |-> "none", url |-> <<>>]
RegOfficial(u) == [kind |-> "official", url |-> u]

\* mutant of paper_key_of: the version is kept
paper_key_versioned(paper_id) == paper_id

\* paper_id[0:ver_pos] when ver_pos, the value of paper_id.find("v"), is not -1
paper_key_at(paper_id, ver_pos) ==
    IF ver_pos = -1 THEN paper_id ELSE Slice(paper_id, 0, ver_pos)

\* eg: 2108.09112v1 -> 2108.09112
paper_key_of(paper_id) == paper_key_at(paper_id, Find(paper_id, "v"))

\* if translater: paper_abstract = translater.translate(paper_abstract), inside
\* a retry loop of get_daily_papers that ends at its first pass: translate
\* returns, it never raises
translated(paper_abstract, tr) ==
    IF tr = NoTranslater THEN paper_abstract ELSE translate(paper_abstract, tr).result

\* paper_abstract after the optional translation
abstract_of(result, tr) == translated(Replace(result.summary, <<NL>>, <<" ">>), tr)

\* the answers of the registry used for one paper: requests.get(code_url).json()
\* is called once, in no loop, and repo is what it returned or that it raised
registry_calls(repo) == <<repo>>

\* code_url = base_url + paper_id: the request sent to the registry; paper_id is
\* result.get_short_id() in get_daily_papers, the key of the record in
\* update_paper_links
code_url_of(paper_id) == base_url \o paper_id

paper_url_of(paper_key) == arxiv_url \o <<"a", "b", "s", "/">> \o paper_key

\* mutant of content_line: the repository found is not written
content_line_unlinked(update_time, paper_title, paper_key, paper_url, repo, paper_abstract) ==
    <<"|", "*", "*">> \o DateStr(update_time) \o <<"*", "*", "|", "*", "*">>
    \o paper_title \o <<"*", "*", "|", "[">> \o paper_key \o <<"]", "(">>
    \o paper_url \o <<")", "|", "n", "u", "l", "l", "|", "*", "*">>
    \o paper_abstract \o <<"*", "*", "|", NL>>

\* the value stored in content[paper_key]
content_line(update_time, paper_title, paper_key, paper_url, repo, paper_abstract) ==
    IF repo.kind = "official"
    THEN <<"|", "*", "*">> \o DateStr(update_time) \o <<"*", "*", "|", "*", "*">>
         \o paper_title \o <<"*", "*", "|", "[">> \o paper_key \o <<"]", "(">>
         \o paper_url \o <<")", "|", "*", "*", "[", "l", "i", "n", "k", "]", "(">>
         \o repo.url \o <<")", "*", "*", "|", "*", "*">> \o paper_abstract
         \o <<"*", "*", "|", NL>>
    ELSE <<"|", "*", "*">> \o DateStr(update_time) \o <<"*", "*", "|", "*", "*">>
         \o paper_title \o <<"*", "*", "|", "[">> \o paper_key \o <<"]", "(">>
         \o paper_url \o <<")", "|", "n", "u", "l", "l", "|", "*", "*">>
         \o paper_abstract \o <<"*", "*", "|", NL>>

\* the value stored in content_to_web[paper_key]
content_to_web_line(update_time, paper_title, paper_url, repo, paper_abstract) ==
    IF repo.kind = "official"
    THEN <<"-", " ">> \o DateStr(update_time) \o <<",", " ", "*", "*">> \o paper_title
         \o <<"*", "*", ",", " ", "P", "a", "p", "e", "r", ":", " ", "[">> \o paper_url
         \o <<"]", "(">> \o paper_url
         \o <<")", ",", " ", "C", "o", "d", "e", ":", " ", "*", "*", "[">> \o repo.url
         \o <<"]", "(">> \o repo.url
         \o <<")", "*", "*", ",", "A", "b", "s", "t", "r", "a", "c", "t", ":", " ", "*", "*">>
         \o paper_abstract \o <<"*", "*">> \o <<NL>>
    ELSE <<"-", " ">> \o DateStr(update_time) \o <<",", " ", "*", "*">> \o paper_title
         \o <<"*", "*", ",", " ", "P", "a", "p", "e", "r", ":", " ", "[">> \o paper_url
         \o <<"]", "(">> \o paper_url \o <<")", ",", "*", "*">>
         \o paper_abstract \o <<"*", "*">> \o <<NL>>

\* mutant of content_with: a registry error empties what was collected so far
content_with_reset(content, result, paper_key, repo, tr) ==
    IF repo.kind = "error" THEN EmptyDict
    ELSE DictSet(content, paper_key,
                 content_line(result.updated, result.title, paper_key,
                              paper_url_of(paper_key), repo, abstract_of(result, tr)))

\* content after one pass of the for loop: repo answers the request made for
\* result; a registry error leaves the paper out
content_with(content, result, paper_key, repo, tr) ==
    IF repo.kind = "error" THEN content
    ELSE DictSet(content, paper_key,
                 content_line(result.updated, result.title, paper_key,
                              paper_url_of(paper_key), repo, abstract_of(result, tr)))

RECURSIVE content_of(_, _, _, _)
\* content after the for loop over search_engine.results(): registry[i] answers
\* the request made for results[i]
content_of(results, registry, tr, content) ==
    IF results = <<>> THEN content
    ELSE content_of(Tail(results), Tail(registry), tr,
                    content_with(content, Head(results), paper_key_of(Head(results).id),
                                 Head(registry), tr))

\* content_to_web after one pass of the for loop
content_to_web_with(content_to_web, result, paper_key, repo, tr) ==
    IF repo.kind = "error" THEN content_to_web
    ELSE DictSet(content_to_web, paper_key,
                 content_to_web_line(result.updated, result.title,
                                     paper_url_of(paper_key), repo, abstract_of(result, tr)))

RECURSIVE content_to_web_of(_, _, _, _)
\* content_to_web after the same loop
content_to_web_of(results, registry, tr, content_to_web) ==
    IF results = <<>> THEN content_to_web
    ELSE content_to_web_of(Tail(results), Tail(registry), tr,
                           content_to_web_with(content_to_web, Head(results),
                                               paper_key_of(Head(results).id),
                                               Head(registry), tr))

\* data of get_daily_papers: the one-entry dict {topic: content}
get_daily_papers(topic, results, registry, tr) ==
    <<[k |-> topic, v |-> content_of(results, registry, tr, EmptyDict)]>>

\* data_web of get_daily_papers: {topic: content_to_web}
get_daily_papers_web(topic, results, registry, tr) ==
    <<[k |-> topic, v |-> content_to_web_of(results, registry, tr, EmptyDict)]>>

-----------------------------------------------------------------------------
(* update_json_file *)

\* mutant of merge_keyword: the bucket is assigned, never updated
merge_keyword_assign(json_data, keyword, papers) == DictSet(json_data, keyword, papers)

\* mutant of merge_keyword: a new keyword gets an empty bucket
merge_keyword_empty(json_data, keyword, papers) ==
    IF HasKey(json_data, keyword)
    THEN DictSet(json_data, keyword, DictUpdate(Get(json_data, keyword), papers))
    ELSE DictSet(json_data, keyword, EmptyDict)

\* one data of data_dict merged into json_data: an existing keyword's bucket is
\* updated, a new keyword gets the harvested papers as its bucket
merge_keyword(json_data, keyword, papers) ==
    IF HasKey(json_data, keyword)
    THEN DictSet(json_data, keyword, DictUpdate(Get(json_data, keyword), papers))
    ELSE DictSet(json_data, keyword, papers)

RECURSIVE merge_data(_, _)
\* for keyword in data.keys()
merge_data(json_data, data) ==
    IF data = <<>> THEN json_data
    ELSE merge_data(merge_keyword(json_data, Head(data).k, Head(data).v), Tail(data))

RECURSIVE update_json_file(_, _)
\* the store written back by update_json_file(filename, data_dict), m its content
update_json_file(m, data_dict) ==
    IF data_dict = <<>> THEN m
    ELSE update_json_file(merge_data(m, Head(data_dict)), Tail(data_dict))

-----------------------------------------------------------------------------
(* update_paper_links *)

NullCell == <<"|", "n", "u", "l", "l", "|">>

\* "|**[link]({repo_url})**|"
LinkCell(repo_url) ==
    <<"|", "*", "*", "[", "l", "i", "n", "k", "]", "(">> \o repo_url \o <<")", "*", "*", "|">>

\* parts[5] exists
parse_ok(s) == Len(Split(s, "|")) >= 6

\* the five fields taken from parts = s.split("|")
parsed_parts(parts) ==
    [date |-> Strip(parts[2]),
     title |-> Strip(parts[3]),
     arxiv_id |-> SubVersion(Strip(parts[4])),
     code |-> Strip(parts[5]),
     abstract |-> Strip(parts[6])]

\* date, title, arxiv_id, code, abstract of a stored line
parse_arxiv_string(s) == parsed_parts(Split(s, "|"))

\* "|{}|{}|{}|{}|{}|\n".format(update_time, paper_title, paper_url, code_url, abstract)
rebuilt_line(p) ==
    <<"|">> \o p.date \o <<"|">> \o p.title \o <<"|">> \o p.arxiv_id \o <<"|">>
    \o p.code \o <<"|">> \o p.abstract \o <<"|", NL>>

\* the record is looked up in the registry
needs_link(contents) == Contains(rebuilt_line(parse_arxiv_string(contents)), NullCell)

\* mutant of linked_line: the answer of the registry is not written
linked_line_kept(line, repo) == line

\* the rebuilt line, with "|null|" replaced when the registry names a repository
linked_line(line, repo) ==
    IF ~Contains(line, NullCell) THEN line
    ELSE IF repo.kind = "official" THEN Replace(line, NullCell, LinkCell(repo.url))
    ELSE line

\* the value left in json_data[keywords][paper_id]; repo answers the request
\* base_url + paper_id, made only when the rebuilt line holds "|null|"
repaired_line(contents, repo) == linked_line(rebuilt_line(parse_arxiv_string(contents)), repo)

\* one bucket after the inner loop; registry[paper_id] answers the request for paper_id
repaired_bucket(v, registry) ==
    [i \in 1..Len(v) |->
        [k |-> v[i].k,
         v |-> repaired_line(v[i].v, IF needs_link(v[i].v) THEN registry[v[i].k] ELSE RegNone)]]

\* parse_arxiv_string raises IndexError on some stored line
links_raises(m) ==
    \E i \in 1..Len(m) : \E j \in 1..Len(m[i].v) : ~parse_ok(m[i].v[j].v)

\* the store written back by update_paper_links(filename), m its content
update_paper_links(m, registry) ==
    [i \in 1..Len(m) |-> [k |-> m[i].k, v |-> repaired_bucket(m[i].v, registry)]]

\* the paper ids update_paper_links asks the registry about
queried_ids(m) ==
    UNION { { m[i].v[j].k : j \in { n \in 1..Len(m[i].v) : needs_link(m[i].v[n].v) } } :
            i \in 1..Len(m) }

-----------------------------------------------------------------------------
(* json_to_md *)

\* the greatest of a non-empty set of distinct keys
max_key(keys) == CHOOSE k \in keys : \A o \in keys \ {k} : StrLess(o, k)

RECURSIVE sorted_desc(_)
\* keys.sort(reverse=True) on a set of distinct keys
sorted_desc(keys) ==
    IF keys = {} THEN <<>> ELSE <<max_key(keys)>> \o sorted_desc(keys \ {max_key(keys)})

\* for key in keys: output[key] = papers[key]
output_of(papers, keys) ==
    [i \in 1..Len(keys) |-> [k |-> keys[i], v |-> Get(papers, keys[i])]]

sort_papers(papers) == output_of(papers, sorted_desc(Keys(papers)))

\* the 1-based positions of the '$' of s that a later '$' follows on the same line
math_starts(s) ==
    { i \in 1..Len(s) :
        /\ s[i] = "$"
        /\ \E j \in (i + 1)..Len(s) : s[j] = "$" /\ \A n \in i..j : s[n] # NL }

\* re.search(r"\$.*\$", s) is not None
has_math(s) == math_starts(s) # {}

Min(S) == CHOOSE i \in S : \A o \in S : i <= o

Max(S) == CHOOSE j \in S : \A o \in S : o <= j

\* the match that starts at the '$' at position first
match_from(s, first) ==
    <<first, Max({ j \in (first + 1)..Len(s) : s[j] = "$" /\ \A n \in first..j : s[n] # NL })>>

\* the match m starts at the first or ends at the last character of s
match_at_edge(s, m) == m[1] = 1 \/ m[2] = Len(s)

\* space_trail, space_leading: a space unless the neighbour is ' ' or '*'
space_for(neighbour) == IF neighbour # " " /\ neighbour # "*" THEN <<" ">> ELSE <<>>

\* s[:math_start] + space_trail + "$" + s[math_start+1:math_end-1].strip() + "$"
\* + space_leading + s[math_end:], the match m given by its first and last '$'
spaced(s, m) ==
    SubSeq(s, 1, m[1] - 1) \o space_for(s[m[1] - 1]) \o <<"$">>
    \o Strip(SubSeq(s, m[1] + 1, m[2] - 1)) \o <<"$">>
    \o space_for(s[m[2] + 1]) \o SubSeq(s, m[2] + 1, Len(s))

\* the match, leftmost then longest ('.' matches no line break): the positions of
\* its first and its last '$'
math_match(s) == match_from(s, Min(math_starts(s)))

\* s[:math_start][-1] or s[math_end:][0] raises IndexError
pretty_math_raises(s) == has_math(s) /\ match_at_edge(s, math_match(s))

pretty_math(s) == IF ~has_math(s) THEN s ELSE spaced(s, math_match(s))

\* One written piece of the markdown file.  The fixed markup (banner, usage line,
\* table heads, back-to-top link) is represented by its kind; a section heading
\* and a table-of-contents item carry the keyword, a row carries the written line.
Piece(kind, text) == [kind |-> kind, text |-> text]

\* the rows for which pretty_math raises
raising_rows(sorted) == { i \in 1..Len(sorted) : pretty_math_raises(sorted[i].v) }

\* the rows written before the first raise
rows_before(sorted, raising) ==
    [raised |-> raising # {},
     rows |-> [i \in 1..(IF raising = {} THEN Len(sorted) ELSE Min(raising) - 1) |->
                  Piece("row", pretty_math(sorted[i].v))]]

written_rows(sorted) == rows_before(sorted, raising_rows(sorted))

\* the f.write(pretty_math(v)) loop over the sorted bucket, up to a raise
rows_of(day_content) == written_rows(sort_papers(day_content))

\* "## keyword" and the table head
section_head(keyword, to_web, use_title) ==
    <<Piece("section", keyword)>>
    \o (IF use_title
        THEN <<Piece(IF to_web THEN "web_table_head" ELSE "table_head", <<>>)>>
        ELSE <<>>)

\* one section followed by the later ones; a raise in its rows ends the writing
section_then(head, body, use_b2t, rest) ==
    IF body.raised THEN [raised |-> TRUE, out |-> head \o body.rows]
    ELSE [raised |-> rest.raised,
          out |-> head \o body.rows \o <<Piece("blank", <<>>)>>
                  \o (IF use_b2t THEN <<Piece("back_to_top", <<>>)>> ELSE <<>>)
                  \o rest.out]

RECURSIVE sections_of(_, _, _, _)
\* the second for keyword in data.keys() loop
sections_of(data, to_web, use_title, use_b2t) ==
    IF data = <<>> THEN [raised |-> FALSE, out |-> <<>>]
    ELSE IF Head(data).v = <<>> THEN sections_of(Tail(data), to_web, use_title, use_b2t)
    ELSE section_then(section_head(Head(data).k, to_web, use_title),
                      rows_of(Head(data).v), use_b2t,
                      sections_of(Tail(data), to_web, use_title, use_b2t))

RECURSIVE toc_of(_)
\* the table of contents: one item per keyword with a non-empty bucket
toc_of(data) ==
    IF data = <<>> THEN <<>>
    ELSE (IF Head(data).v = <<>> THEN <<>> ELSE <<Piece("toc", Head(data).k)>>)
         \o toc_of(Tail(data))

\* the front of the file, then the sections
md_file(data, to_web, use_title, use_tc, sections) ==
    [raised |-> sections.raised,
     out |-> (IF use_title /\ to_web THEN <<Piece("front_matter", <<>>)>> ELSE <<>>)
             \o <<Piece(IF use_title THEN "updated_heading" ELSE "updated_quote", <<>>)>>
             \o <<Piece("usage", <<>>)>>
             \o (IF use_tc THEN toc_of(data) ELSE <<>>)
             \o sections.out]

\* what json_to_md writes to md_filename, data the content of the store file
json_to_md(data, to_web, use_title, use_tc, use_b2t) ==
    md_file(data, to_web, use_title, use_tc, sections_of(data, to_web, use_title, use_b2t))

-----------------------------------------------------------------------------
(* The environment: configuration, upstream search, registry, translation service *)

nerf == <<"n", "e", "r", "f">>
OCR == <<"O", "C", "R">>

\* config["kv"].keys(), in order
Topics == <<nerf, OCR>>

Date(y, m, d) == [year |-> y, month |-> m, day |-> d]

Paper(id, title, summary, updated) ==
    [id |-> id, title |-> title, summary |-> summary, updated |-> updated]

NoPaper == Paper(<<>>, <<>>, <<>>, Date(0, 0, 0))

\* What the search can return for each topic: the papers in descending order of
\* submission, each in one of its versions.  Paper 7 was submitted before paper 8
\* and revised (v2) after it; the summary of 7 has a line break, that of 8 a '|'.
\* No paper matches the query of the second topic.
Catalog ==
    << << { Paper(<<"8", "v", "1">>, <<"B">>, <<"a", "|", "b">>, Date(2024, 1, 2)) },
          { Paper(<<"7", "v", "1">>, <<"A">>, <<"x", NL, "y">>, Date(2024, 1, 1)),
            Paper(<<"7", "v", "2">>, <<"A">>, <<"x", NL, "y">>, Date(2024, 1, 3)) } >>,
       << >> >>

\* the result lists of one search: at most MaxResults papers of the catalog, in order
ResultLists(t) ==
    LET slots == Catalog[t]
        picks == { f \in [1..Len(slots) -> {NoPaper} \cup UNION { slots[j] : j \in 1..Len(slots) }] :
                     /\ \A j \in 1..Len(slots) : f[j] = NoPaper \/ f[j] \in slots[j]
                     /\ Cardinality({ j \in 1..Len(slots) : f[j] # NoPaper }) <= MaxResults }
    IN  { SelectSeq(f, LAMBDA r : r # NoPaper) : f \in picks }

\* the answers of the registry
RegAnswers == { RegError, RegNone, RegOfficial(<<"g">>) }

\* search_engine.results() raises
SearchFailed == [failed |-> TRUE, results |-> <<>>, registry |-> <<>>]

\* what one call of get_daily_papers meets upstream: the search fails, or it
\* returns a result list and the registry answers the request made for each result
SearchOutcomes(t) ==
    {SearchFailed} \cup
    UNION { { [failed |-> FALSE, results |-> rs, registry |-> rg] :
                rg \in [1..Len(rs) -> RegAnswers] } : rs \in ResultLists(t) }

\* the translation service answers every request / no request
Translated == <<"Z">>
ServiceUp == [i \in 1..NUM_RETRIES |-> Answer(Translated)]
ServiceDown == [i \in 1..NUM_RETRIES |-> Failure]

\* demo's translater argument
Translaters == { NoTranslater, ServiceUp, ServiceDown }

-----------------------------------------------------------------------------
(* demo *)

publish_readme == TRUE
publish_gitpage == TRUE

\* the search of some topic raises: the exception leaves get_daily_papers and demo
search_raises(outs) == \E t \in 1..Len(outs) : outs[t].failed

\* the topics whose get_daily_papers call returned
topics_done(outs) ==
    IF search_raises(outs)
    THEN (CHOOSE t \in 1..Len(outs) : outs[t].failed /\ \A u \in 1..(t - 1) : ~outs[u].failed) - 1
    ELSE Len(outs)

\* data_collector after the loop over keywords.items()
collected(outs, tr) ==
    [t \in 1..topics_done(outs) |->
        get_daily_papers(Topics[t], outs[t].results, outs[t].registry, tr)]

\* data_collector_web after the loop
collected_web(outs, tr) ==
    [t \in 1..topics_done(outs) |->
        get_daily_papers_web(Topics[t], outs[t].results, outs[t].registry, tr)]

\* what the search and the registry answered up to the end of the run
answered(outs) ==
    SubSeq(outs, 1, IF search_raises(outs) THEN topics_done(outs) + 1 ELSE Len(outs))

\* one entry of the log: the text handed to translate, what it returned, the
\* requests it made and the seconds it slept
call_entry(t, id, text, out) ==
    [topic |-> t, id |-> id, text |-> text, result |-> out.result,
     calls |-> out.calls, slept |-> out.slept]

logged_call(t, id, text, tr) == call_entry(t, id, text, translate(text, tr))

\* the translate call made for one result
translate_call(t, result, tr) ==
    logged_call(t, result.id, Replace(result.summary, <<NL>>, <<" ">>), tr)

RECURSIVE translate_calls(_, _, _)
\* the translate calls of the run, topic by topic from topic t on
translate_calls(outs, t, tr) ==
    IF tr = NoTranslater \/ t > topics_done(outs) THEN <<>>
    ELSE [n \in 1..Len(outs[t].results) |-> translate_call(t, outs[t].results[n], tr)]
         \o translate_calls(outs, t + 1, tr)

\* the <<topic, paper_id>> pairs this run put into data_collector
recorded_ids(outs) ==
    UNION { { <<t, outs[t].results[n].id>> :
                n \in { j \in 1..Len(outs[t].results) : outs[t].registry[j].kind # "error" } } :
            t \in 1..topics_done(outs) }

\* The two publish steps of demo: j1 and j2 are what the update step
\* (update_json_file or update_paper_links) writes back to the readme and to the
\* gitpage store file, raises1 and raises2 whether it raises instead.  An
\* exception ends the run where it is raised, with the files written so far.
Written(j1, r1, raises1, j2, r2, raises2, mode) ==
    IF raises1
    THEN /\ last_run' = "aborted"
         /\ UNCHANGED <<json_readme, md_readme, json_gitpage, md_gitpage>>
    ELSE IF r1.raised \/ raises2
    THEN /\ last_run' = "aborted"
         /\ json_readme' = j1
         /\ md_readme' = r1.out
         /\ UNCHANGED <<json_gitpage, md_gitpage>>
    ELSE /\ last_run' = IF r2.raised THEN "aborted" ELSE mode
         /\ json_readme' = j1
         /\ md_readme' = r1.out
         /\ json_gitpage' = j2
         /\ md_gitpage' = r2.out

\* r1, r2 of Written: what json_to_md writes from the two store files
Publish(j1, raises1, j2, raises2, mode) ==
    Written(j1, json_to_md(j1, FALSE, TRUE, TRUE, TRUE), raises1,
            j2, json_to_md(j2, TRUE, TRUE, FALSE, FALSE), raises2, mode)

\* json.loads(content) raises on the content of the store file
loads_raises(file) == file \in malformed

\* one run of the harvest mode on the upstream answers outs, dc its data_collector
Harvested(outs, dc) ==
    /\ harvested' = answered(outs)
    /\ translate_log' = translate_calls(outs, 1, translater)
    /\ IF search_raises(outs)
       THEN /\ last_run' = "aborted"
            /\ data_collector' = <<>>
            /\ UNCHANGED <<json_readme, md_readme, json_gitpage, md_gitpage, merged_ids>>
       ELSE /\ Publish(update_json_file(json_readme, dc), loads_raises("json_readme"),
                       update_json_file(json_gitpage, dc), loads_raises("json_gitpage"),
                       "harvest")
            /\ data_collector' = dc
            /\ merged_ids' = IF loads_raises("json_readme") THEN merged_ids
                             ELSE merged_ids \cup recorded_ids(outs)
    /\ queried' = {}
    /\ UNCHANGED <<translater, malformed, call, ret>>

\* demo(translater, **config) with config["update_paper_links"] == False
Harvest ==
    \E o1 \in SearchOutcomes(1), o2 \in SearchOutcomes(2) :
        Harvested(<<o1, o2>>, collected(<<o1, o2>>, translater))

\* demo(translater, **config) with config["update_paper_links"] == True.  The
\* registry gives the same answer to the requests made for one paper id while
\* the two store files are repaired.
Repair ==
    \E registry \in [queried_ids(json_readme) \cup queried_ids(json_gitpage) -> RegAnswers] :
        /\ Publish(update_paper_links(json_readme, registry),
                   loads_raises("json_readme") \/ links_raises(json_readme),
                   update_paper_links(json_gitpage, registry),
                   loads_raises("json_gitpage") \/ links_raises(json_gitpage),
                   "repair")
        /\ queried' = { [id |-> i, repo |-> registry[i]] : i \in DOMAIN registry }
        /\ harvested' = <<>>
        /\ data_collector' = <<>>
        /\ translate_log' = <<>>
        /\ UNCHANGED <<translater, merged_ids, malformed, call, ret>>

\* the store files that may hold text that is no JSON when the program starts
MalformedAtStart == { {}, {"json_readme"} }

\* no function was called on its own
NoCall == [fn |-> "none", arg |-> <<>>]

Init ==
    /\ json_readme = EmptyDict
    /\ json_gitpage = EmptyDict
    /\ md_readme = <<>>
    /\ md_gitpage = <<>>
    /\ translater \in Translaters
    /\ last_run = "none"
    /\ data_collector = <<>>
    /\ harvested = <<>>
    /\ merged_ids = {}
    /\ translate_log = <<>>
    /\ malformed \in MalformedAtStart
    /\ queried = {}
    /\ call = NoCall
    /\ ret = <<>>

Next == Harvest \/ Repair

Spec == Init /\ [][Next]_vars

-----------------------------------------------------------------------------
(* The functions of the program called on their own, on arguments drawn from *)
(* bounded sets                                                              *)

RECURSIVE SeqsUpTo(_, _)
\* the sequences over alphabet of length 0..n
SeqsUpTo(alphabet, n) ==
    IF n = 0 THEN { <<>> }
    ELSE SeqsUpTo(alphabet, n - 1)
         \cup { Append(s, c) : s \in { x \in SeqsUpTo(alphabet, n - 1) : Len(x) = n - 1 },
                               c \in alphabet }

\* the lines handed to pretty_math: letters, spaces, emphasis marks and '$'
MathChars == {"a", " ", "*", "$"}
MathLines == SeqsUpTo(MathChars, MaxText)

\* what a call returned, or that it raised
Returned(value) == [raised |-> FALSE, value |-> value]
Raised == [raised |-> TRUE, value |-> <<>>]

\* pretty_math(s) called on a line
CallPrettyMath ==
    /\ call = NoCall
    /\ \E s \in MathLines :
          /\ call' = [fn |-> "pretty_math", arg |-> s]
          /\ ret' = IF pretty_math_raises(s) THEN Raised ELSE Returned(pretty_math(s))
    /\ UNCHANGED <<json_readme, json_gitpage, md_readme, md_gitpage, translater, last_run,
                   data_collector, harvested, merged_ids, translate_log, malformed, queried>>

\* a second text the translation service may return
OtherTranslation == <<"Y">>

\* the translation services: each of the NUM_RETRIES requests is answered by a
\* text or fails
Services == [1..NUM_RETRIES -> {Answer(Translated), Answer(OtherTranslation), Failure}]

\* the abstracts handed to the translater
Abstracts == { <<"a", "|", "b">>, <<"x", " ", "y">> }

\* the translation step of get_daily_papers for one paper, translater given
CallTranslate ==
    /\ call = NoCall
    /\ \E text \in Abstracts, service \in Services :
          /\ call' = [fn |-> "translate", arg |-> [text |-> text, service |-> service]]
          /\ ret' = Returned([out |-> translate(text, service),
                              abstract |-> translated(text, service)])
    /\ UNCHANGED <<json_readme, json_gitpage, md_readme, md_gitpage, translater, last_run,
                   data_collector, harvested, merged_ids, translate_log, malformed, queried>>

\* the characters of a source identifier before its version marker: new-style
\* ids are digits and a dot, old-style ids have a category prefix, in which the
\* letter v may occur
StemChars == {"s", "v", "/", "7"}

\* result.get_short_id(): an identifier and its version marker vN
SourceIds ==
    { stem \o <<"v", n>> : stem \in SeqsUpTo(StemChars, MaxStem) \ { <<>> }, n \in {"1", "2"} }

\* the paper_key computation of get_daily_papers on one source identifier
CallPaperKey ==
    /\ call = NoCall
    /\ \E paper_id \in SourceIds :
          /\ call' = [fn |-> "paper_key", arg |-> paper_id]
          /\ ret' = Returned(paper_key_of(paper_id))
    /\ UNCHANGED <<json_readme, json_gitpage, md_readme, md_gitpage, translater, last_run,
                   data_collector, harvested, merged_ids, translate_log, malformed, queried>>

\* a text of two lines the translation service may return
TwoLineTranslation == <<"Z", NL, "Z">>

\* the translaters whose service may answer with a text of two lines
TwoLineServices ==
    [1..NUM_RETRIES -> {Answer(TwoLineTranslation), Answer(Translated), Failure}]

\* the papers a search may return
CatalogPapers == UNION { UNION { Catalog[t][s] : s \in 1..Len(Catalog[t]) } : t \in 1..Len(Topics) }

\* one pass of the loop of get_daily_papers on its own: the record written
\* into content for one result, the registry naming no repository
CallRecord ==
    /\ call = NoCall
    /\ \E result \in CatalogPapers, tr \in {NoTranslater} \cup TwoLineServices :
          /\ call' = [fn |-> "record", arg |-> [result |-> result, translater |-> tr]]
          /\ ret' = Returned(content_with(EmptyDict, result, paper_key_of(result.id),
                                          RegNone, tr))
    /\ UNCHANGED <<json_readme, json_gitpage, md_readme, md_gitpage, translater, last_run,
                   data_collector, harvested, merged_ids, translate_log, malformed, queried>>

PureInit ==
    /\ json_readme = EmptyDict
    /\ json_gitpage = EmptyDict
    /\ md_readme = <<>>
    /\ md_gitpage = <<>>
    /\ translater = NoTranslater
    /\ last_run = "none"
    /\ data_collector = <<>>
    /\ harvested = <<>>
    /\ merged_ids = {}
    /\ translate_log = <<>>
    /\ malformed = {}
    /\ queried = {}
    /\ call = NoCall
    /\ ret = <<>>

PureNext == CallPrettyMath \/ CallTranslate \/ CallPaperKey \/ CallRecord

PureSpec == PureInit /\ [][PureNext]_vars

-----------------------------------------------------------------------------
(* Reading the store: the record format of section 6 of the specification *)

\* the bucket of a topic, empty when the store has no such topic
BucketOf(m, topic) == IF HasKey(m, topic) THEN Get(m, topic) ELSE EmptyDict

\* The five cells of a stored line "|date|title|id|code|abstract|\n": the first
\* four end at the next '|', the abstract is all that follows, up to the closing "|\n"
CellsOf(line) ==
    LET parts == Split(line, "|") IN
    [date |-> parts[2], title |-> parts[3], id |-> parts[4], code |-> parts[5],
     abstract |-> Join(SubSeq(parts, 6, Len(parts) - 1), <<"|">>)]

\* the record has a code_url
LinkPresent(line) == CellsOf(line).code # <<"n", "u", "l", "l">>

\* text as get_daily_papers writes it into a cell
Bold(text) == <<"*", "*">> \o text \o <<"*", "*">>

\* the summary as one paragraph
Flat(summary) == [i \in 1..Len(summary) |-> IF summary[i] = NL THEN " " ELSE summary[i]]

RECURSIVE DropTrailingDigits(_)
DropTrailingDigits(s) ==
    IF s # <<>> /\ s[Len(s)] \in Digits THEN DropTrailingDigits(SubSeq(s, 1, Len(s) - 1)) ELSE s

\* the canonical id of a source identifier: the identifier without its trailing vN
CanonicalId(id) ==
    LET stem == DropTrailingDigits(id) IN
    IF stem # id /\ stem # <<>> /\ stem[Len(stem)] = "v"
    THEN SubSeq(stem, 1, Len(stem) - 1) ELSE id

\* no key twice in a dict
UniqueKeys(d) == \A i, j \in 1..Len(d) : d[i].k = d[j].k => i = j

\* every topic and record of store m is still in store n
Kept(m, n) ==
    \A i \in 1..Len(m) :
        /\ HasKey(n, m[i].k)
        /\ \A j \in 1..Len(m[i].v) : HasKey(Get(n, m[i].k), m[i].v[j].k)

\* no canonical id twice in a bucket
UniqueIds(d) == \A i, j \in 1..Len(d) : CanonicalId(d[i].k) = CanonicalId(d[j].k) => i = j

\* the store holds each topic once, and every bucket each canonical id once
WellKeyed(m) == UniqueKeys(m) /\ \A i \in 1..Len(m) : UniqueIds(m[i].v)

\* the results of the last run that went through get_daily_papers
Processed(t) ==
    IF t <= Len(harvested) /\ ~harvested[t].failed
    THEN { n \in 1..Len(harvested[t].results) : TRUE } ELSE {}

-----------------------------------------------------------------------------
(* Claims *)

\* C1: a record whose code_url is present keeps a code_url through every later
\* harvest-merge and repair run (the claim; the code overwrites the record with
\* the incoming one, link or not).
C1_LinkNeverLost ==
    [][\A i \in 1..Len(json_readme) : \A j \in 1..Len(json_readme[i].v) :
          LET topic == json_readme[i].k
              key == json_readme[i].v[j].k
          IN  LinkPresent(json_readme[i].v[j].v)
              => /\ HasKey(BucketOf(json_readme', topic), key)
                 /\ LinkPresent(Get(BucketOf(json_readme', topic), key))]_vars

\* C2: a second harvest-merge run that meets the same upstream answers as the run
\* just published (same search results, registry answers and translations) writes
\* back each store file as it is.
C2_HarvestIdempotent ==
    last_run = "harvest" =>
        LET again == collected(harvested, translater) IN
        /\ again = data_collector
        /\ update_json_file(json_readme, again) = json_readme
        /\ update_json_file(json_gitpage, again) = json_gitpage

\* a published harvest of two papers, one of them a version of paper 7 other than
\* the version merged before, so that the run updated a record the bucket held
C2_Witness ==
    /\ last_run = "harvest"
    /\ Len(data_collector[1][1].v) = 2
    /\ Len(BucketOf(json_readme, nerf)) = 2
    /\ \E id \in {<<"7", "v", "1">>, <<"7", "v", "2">>} :
          <<1, id>> \in merged_ids /\ \A n \in Processed(1) : harvested[1].results[n].id # id

\* C3: the versions of one paper have one canonical key, the identifier without
\* its version suffix, and a bucket holds at most one record for the paper however
\* many of its versions were merged.
C3_VersionsCollapse ==
    \A t \in 1..Len(Topics) : \A s \in 1..Len(Catalog[t]) :
        /\ \A p \in Catalog[t][s] : paper_key_of(p.id) = CanonicalId(p.id)
        /\ \A p, q \in Catalog[t][s] : paper_key_of(p.id) = paper_key_of(q.id)
        /\ LET bucket == BucketOf(json_readme, Topics[t]) IN
           Cardinality({ i \in 1..Len(bucket) :
                           \E p \in Catalog[t][s] : CanonicalId(bucket[i].k) = CanonicalId(p.id) }) <= 1

\* both versions of paper 7 were merged and the bucket holds it once, under 7
C3_Witness ==
    /\ <<1, <<"7", "v", "1">>>> \in merged_ids
    /\ <<1, <<"7", "v", "2">>>> \in merged_ids
    /\ Cardinality({ i \in 1..Len(BucketOf(json_readme, nerf)) :
                       BucketOf(json_readme, nerf)[i].k = <<"7">> }) = 1

\* C4: when every call of the translation service fails, each translate call
\* makes exactly 3 attempts, returns its argument verbatim and has slept at least
\* base + 2 * base seconds; no call raises, so every result of the run is handed
\* on, and each one the run records carries the untranslated abstract.
C4_TranslationFallback ==
    translater = ServiceDown =>
        /\ \A c \in 1..Len(translate_log) :
              /\ translate_log[c].calls = 3
              /\ translate_log[c].result = translate_log[c].text
              /\ translate_log[c].slept >= TranslateBackoff + 2 * TranslateBackoff
        /\ last_run = "harvest" =>
              \A t \in 1..Len(harvested) : \A n \in Processed(t) :
                  LET paper == harvested[t].results[n]
                      key == CanonicalId(paper.id)
                  IN  /\ \E c \in 1..Len(translate_log) :
                            translate_log[c].topic = t /\ translate_log[c].id = paper.id
                      /\ harvested[t].registry[n].kind # "error"
                         => /\ HasKey(BucketOf(json_readme, Topics[t]), key)
                            /\ CellsOf(Get(BucketOf(json_readme, Topics[t]), key)).abstract
                                  = Bold(Flat(paper.summary))
                            /\ HasKey(BucketOf(json_gitpage, Topics[t]), key)
                            /\ CellsOf(Get(BucketOf(json_gitpage, Topics[t]), key)).abstract
                                  = Bold(Flat(paper.summary))

\* a published harvest of two papers with the service down
C4_Witness ==
    /\ translater = ServiceDown
    /\ last_run = "harvest"
    /\ Len(translate_log) = 2
    /\ Len(data_collector[1][1].v) = 2
    /\ Len(BucketOf(json_readme, nerf)) = 2

\* C5: a paper whose registry request failed in a published harvest run is in the
\* store after the run, with code_url absent (the claim; the code leaves the paper
\* out of content).
C5_RegistryErrorKeepsPaper ==
    last_run = "harvest" =>
        \A t \in 1..Len(harvested) : \A n \in Processed(t) :
            LET key == CanonicalId(harvested[t].results[n].id)
                bucket == BucketOf(json_readme, Topics[t])
            IN  harvested[t].registry[n].kind = "error"
                => HasKey(bucket, key) /\ ~LinkPresent(Get(bucket, key))

\* C6: a repair run leaves the title and the abstract of every record as they
\* were (the claim; the code cuts an abstract at its first '|').
C6_RepairKeepsText ==
    [][last_run' = "repair" =>
          \A i \in 1..Len(json_readme) : \A j \in 1..Len(json_readme[i].v) :
              LET old == json_readme[i].v[j].v
                  bucket == BucketOf(json_readme', json_readme[i].k)
              IN  /\ HasKey(bucket, json_readme[i].v[j].k)
                  /\ CellsOf(Get(bucket, json_readme[i].v[j].k)).title = CellsOf(old).title
                  /\ CellsOf(Get(bucket, json_readme[i].v[j].k)).abstract = CellsOf(old).abstract]_vars

\* C7: the rows of each section of the rendered report are in descending order
\* of update_date (the claim; the code orders them by canonical id).
C7_RowsByDateDescending ==
    \A i \in 1..(Len(md_readme) - 1) :
        md_readme[i].kind = "row" /\ md_readme[i + 1].kind = "row"
        => ~StrLess(CellsOf(md_readme[i].text).date, CellsOf(md_readme[i + 1].text).date)

\* C8: no run removes a topic or a record from a store file, and each store file
\* holds every topic once and every canonical id once per bucket.
C8_NothingRemoved ==
    [][/\ Kept(json_readme, json_readme') /\ WellKeyed(json_readme')
       /\ Kept(json_gitpage, json_gitpage') /\ WellKeyed(json_gitpage')]_vars

\* a published harvest after which the bucket holds a record the run did not harvest
C8_Witness ==
    /\ last_run = "harvest"
    /\ \E i \in 1..Len(BucketOf(json_readme, nerf)) :
          ~HasKey(data_collector[1][1].v, BucketOf(json_readme, nerf)[i].k)

\* C9: a run does not call the translation service for a paper whose record is
\* in the store with a translated abstract (the claim; the code translates every
\* result of every harvest).
C9_TranslatedOnce ==
    [][\A c \in 1..Len(translate_log') :
          LET key == CanonicalId(translate_log'[c].id)
              bucket == BucketOf(json_readme, Topics[translate_log'[c].topic])
          IN  translate_log'[c].calls > 0
              => ~(HasKey(bucket, key) /\ CellsOf(Get(bucket, key)).abstract = Bold(Translated))]_vars

\* C10: when the search of one topic fails, every other topic is still searched
\* and the run publishes, with their records in the store (the claim; the
\* exception ends demo before anything is written).
C10_FailedTopicSkipped ==
    (\E t \in 1..Len(harvested) : harvested[t].failed) =>
        /\ last_run = "harvest"
        /\ Len(harvested) = Len(Topics)
        /\ \A t \in 1..Len(harvested) : \A n \in Processed(t) :
              harvested[t].registry[n].kind # "error"
              => HasKey(BucketOf(json_readme, Topics[t]), CanonicalId(harvested[t].results[n].id))

\* C11: a run that meets a store file json.loads cannot parse treats the file
\* as an empty store and publishes: it does not end in an exception, and a
\* harvest leaves in the store what it would merge into an empty one (the claim;
\* the code lets the JSONDecodeError of json.loads leave update_json_file,
\* update_paper_links and demo).
C11_MalformedAsEmpty ==
    (/\ "json_readme" \in malformed
     /\ last_run # "none"
     /\ \A t \in 1..Len(harvested) : ~harvested[t].failed)
    => /\ last_run \in {"harvest", "repair"}
       /\ last_run = "harvest"
          => json_readme = update_json_file(EmptyDict, collected(harvested, translater))

\* C12: a harvest run whose searches return publishes even when the registry
\* request of some paper raises: that paper alone is left out, its record in the
\* store (if any) stays as it was, and every other paper of the run is recorded.
C12_FailedPaperOnly ==
    [][(/\ harvested' # <<>>
        /\ \A t \in 1..Len(harvested') : ~harvested'[t].failed
        /\ malformed = {})
       => /\ last_run' = "harvest"
          /\ \A t \in 1..Len(harvested') : \A n \in 1..Len(harvested'[t].results) :
                LET key == CanonicalId(harvested'[t].results[n].id)
                    before == BucketOf(json_readme, Topics[t])
                    after == BucketOf(json_readme', Topics[t])
                IN  IF harvested'[t].registry[n].kind = "error"
                    THEN /\ HasKey(before, key) <=> HasKey(after, key)
                         /\ HasKey(before, key) => Get(after, key) = Get(before, key)
                    ELSE HasKey(after, key)]_vars

\* a published harvest of papers 8 and 7 in which the request for 8 raised and
\* the one for 7 did not, the store holding the record 8 of an earlier run
C12_Witness ==
    /\ last_run = "harvest"
    /\ Len(harvested[1].results) = 2
    /\ harvested[1].registry[1].kind = "error"
    /\ harvested[1].registry[2].kind # "error"
    /\ HasKey(BucketOf(json_readme, nerf), <<"8">>)
    /\ HasKey(BucketOf(json_readme, nerf), <<"7">>)

\* the positions of the '$' of a line
Dollars(s) == { i \in 1..Len(s) : s[i] = "$" }

\* C13: for a line with one pair of '$' markers, pretty_math returns the line
\* with the text between the markers unchanged, and with one space put between
\* a marker and a neighbour that is neither a space nor '*' (the claim; the code
\* strips the white space at both ends of the text between the markers).
C13_MathSpacing ==
    (/\ call.fn = "pretty_math"
     /\ Cardinality(Dollars(call.arg)) = 2
     /\ ~ret.raised)
    => LET p1 == Min(Dollars(call.arg))
           p2 == Max(Dollars(call.arg))
           q1 == Min(Dollars(ret.value))
           q2 == Max(Dollars(ret.value))
       IN  /\ Cardinality(Dollars(ret.value)) = 2
           /\ SubSeq(ret.value, q1 + 1, q2 - 1) = SubSeq(call.arg, p1 + 1, p2 - 1)
           /\ SubSeq(ret.value, 1, q1 - 1)
                 = SubSeq(call.arg, 1, p1 - 1)
                   \o (IF call.arg[p1 - 1] \in {" ", "*"} THEN <<>> ELSE <<" ">>)
           /\ SubSeq(ret.value, q2 + 1, Len(ret.value))
                 = (IF call.arg[p2 + 1] \in {" ", "*"} THEN <<>> ELSE <<" ">>)
                   \o SubSeq(call.arg, p2 + 1, Len(call.arg))

\* the records of a store, as <<topic, key>> pairs
RecordsOf(m) == UNION { { <<m[i].k, m[i].v[j].k>> : j \in 1..Len(m[i].v) } : i \in 1..Len(m) }

\* the positions of the rows in a rendered report
RowsOf(md) == { i \in 1..Len(md) : md[i].kind = "row" }

\* C14: a harvest run on an empty store that finds one paper, for which the
\* registry names a repository, leaves one record in the store, with that
\* repository as its code_url, and the plain report has one row, which carries
\* the title of the paper and the link.
C14_FirstPaper ==
    [][(/\ json_readme = EmptyDict
        /\ last_run' = "harvest"
        /\ Len(harvested'[1].results) = 1
        /\ harvested'[1].registry[1].kind = "official"
        /\ \A t \in 2..Len(harvested') : harvested'[t].results = <<>>)
       => LET paper == harvested'[1].results[1]
              link == SubSeq(LinkCell(harvested'[1].registry[1].url), 2,
                             Len(LinkCell(harvested'[1].registry[1].url)) - 1)
          IN  /\ RecordsOf(json_readme') = { <<nerf, CanonicalId(paper.id)>> }
              /\ CellsOf(Get(BucketOf(json_readme', nerf), CanonicalId(paper.id))).code = link
              /\ Cardinality(RowsOf(md_readme')) = 1
              /\ \A i \in RowsOf(md_readme') :
                    /\ CellsOf(md_readme'[i].text).title = Bold(paper.title)
                    /\ CellsOf(md_readme'[i].text).code = link]_vars

\* the store after such a run: one paper merged so far, found with a repository
C14_Witness ==
    /\ last_run = "harvest"
    /\ Cardinality(merged_ids) = 1
    /\ Len(harvested[1].results) = 1
    /\ harvested[1].registry[1].kind = "official"
    /\ Cardinality(RecordsOf(json_readme)) = 1
    /\ Cardinality(RowsOf(md_readme)) = 1

\* the requests the last run sent to the registry: one for every result of a
\* search that returned, one for every record a repair run looked up
RegistryRequests ==
    UNION { { [id |-> harvested[t].results[n].id,
               url |-> code_url_of(harvested[t].results[n].id)] : n \in Processed(t) } :
            t \in 1..Len(harvested) }
    \cup { [id |-> q.id, url |-> code_url_of(q.id)] : q \in queried }

\* C15: every request sent to the registry names the paper by its canonical id,
\* the identifier without its version suffix (the claim; get_daily_papers sends
\* base_url + result.get_short_id(), the versioned identifier).
C15_RequestsByCanonicalId ==
    \A r \in RegistryRequests : r.url = base_url \o CanonicalId(r.id)

\* the code cell of a record with this repository url
LinkText(url) == SubSeq(LinkCell(url), 2, Len(LinkCell(url)) - 1)

\* the keys of the records of a store that have no code_url
Unlinked(m) ==
    UNION { { m[i].v[j].k : j \in { n \in 1..Len(m[i].v) : ~LinkPresent(m[i].v[n].v) } } :
            i \in 1..Len(m) }

\* C16: a repair run asks the registry about the records without code_url and
\* about no other; a record asked about gets the repository the registry names
\* as its code_url and stays without one when the registry names none or fails,
\* a record with a code_url keeps it, and the store has the records it had.
C16_RepairLinksOnly ==
    [][last_run' = "repair"
       => /\ { q.id : q \in queried' } = Unlinked(json_readme) \cup Unlinked(json_gitpage)
          /\ RecordsOf(json_readme') = RecordsOf(json_readme)
          /\ RecordsOf(json_gitpage') = RecordsOf(json_gitpage)
          /\ \A i \in 1..Len(json_readme) : \A j \in 1..Len(json_readme[i].v) :
                LET key == json_readme[i].v[j].k
                    old == CellsOf(json_readme[i].v[j].v).code
                    new == CellsOf(Get(BucketOf(json_readme', json_readme[i].k), key)).code
                IN  IF LinkPresent(json_readme[i].v[j].v)
                    THEN new = old
                    ELSE \E q \in queried' :
                            /\ q.id = key
                            /\ new = IF q.repo.kind = "official"
                                     THEN LinkText(q.repo.url) ELSE old]_vars

\* a repair run that asked about paper 8 alone, of a store of two records, and
\* was told a repository
C16_Witness ==
    /\ last_run = "repair"
    /\ Cardinality(RecordsOf(json_readme)) = 2
    /\ queried = { [id |-> <<"8">>, repo |-> RegOfficial(<<"g">>)] }
    /\ CellsOf(Get(BucketOf(json_readme, nerf), <<"8">>)).code = LinkText(<<"g">>)

\* how many requests fail before the service first answers
LeadingFailures(service) ==
    CHOOSE k \in 0..Len(service) :
        /\ \A i \in 1..k : ~service[i].ok
        /\ k = Len(service) \/ service[k + 1].ok

RECURSIVE BackoffSum(_)
\* the seconds slept over k failures when the i-th sleep is base * 2^(i-1)
BackoffSum(k) == IF k = 0 THEN 0 ELSE BackoffSum(k - 1) + TranslateBackoff * 2 ^ (k - 1)

\* C17: for one paper the translation service is called at most 3 times: the
\* calls stop at the first that succeeds, whose text becomes the abstract (the
\* original abstract when all 3 fail), and the sleep after the i-th failure is
\* base * 2^(i-1).
C17_TranslateAttempts ==
    call.fn = "translate" =>
        LET k == LeadingFailures(call.arg.service)
            out == ret.value.out
        IN  /\ ~ret.raised
            /\ out.calls <= 3
            /\ out.calls = IF k < 3 THEN k + 1 ELSE 3
            /\ ret.value.abstract = IF k < 3 THEN call.arg.service[k + 1].text ELSE call.arg.text
            /\ out.slept = BackoffSum(IF k < 3 THEN k ELSE 3)

\* the service fails once, then answers: two calls, one second slept
C17_Witness ==
    /\ call.fn = "translate"
    /\ call.arg.service = <<Failure, Answer(OtherTranslation), Answer(Translated)>>
    /\ ret.value.out.calls = 2
    /\ ret.value.out.slept = 1
    /\ ret.value.abstract = OtherTranslation

\* C18: the key computed for a source identifier is the identifier without its
\* trailing version marker vN, whatever the identifier holds before the marker
\* (the claim; the code cuts the identifier at its first 'v').
C18_KeyDropsVersionOnly ==
    call.fn = "paper_key" => ret.value = CanonicalId(call.arg)

\* C19: a registry request that fails is made again, up to 3 attempts in all,
\* before the link is given up, in a harvest run and in a repair run (the claim;
\* the code makes one request and gives up when it raises).
C19_RegistryRetried ==
    /\ \A t \in 1..Len(harvested) : \A n \in Processed(t) :
          harvested[t].registry[n].kind = "error"
          => Len(registry_calls(harvested[t].registry[n])) = 3
    /\ \A q \in queried :
          q.repo.kind = "error" => Len(registry_calls(q.repo)) = 3

\* C20: after a published harvest the rows of the plain report are pipe-table
\* rows and the rows of the web report are bulleted-list rows, the web store
\* holding the web-formatted records of the harvest (the claim; demo merges
\* data_collector, the table-formatted records, into both store files).
C20_WebReportBulleted ==
    last_run = "harvest" =>
        /\ \A i \in RowsOf(md_readme) : md_readme[i].text[1] = "|"
        /\ \A i \in RowsOf(md_gitpage) : SubSeq(md_gitpage[i].text, 1, 2) = <<"-", " ">>
        /\ update_json_file(json_gitpage, collected_web(harvested, translater)) = json_gitpage

\* C21: the abstract of a record written into the store holds no line break,
\* whatever the summary of the paper and whatever text the translation service
\* returns (the claim; the code replaces the line breaks of the summary before
\* the translation and writes the returned text as it is).
C21_AbstractOneLine ==
    call.fn = "record" =>
        \A e \in 1..Len(ret.value) :
            \A i \in 1..Len(CellsOf(ret.value[e].v).abstract) :
                CellsOf(ret.value[e].v).abstract[i] # NL

====
